---- MODULE Spec2Model ----
(***************************************************************************)
(* Model of the netatmo-exporter collector (src/main.go): the Prometheus   *)
(* collector netatmoCollector with its Collect method (the scrape path)    *)
(* and the refreshData goroutines it spawns.                               *)
(*                                                                         *)
(* Time is counted in whole seconds.  A time.Time value is represented by  *)
(* its Unix second; the zero time.Time is the value ZeroTime, which lies   *)
(* far before every clock reading.  A Go pointer is a sequence of length   *)
(* 0 (nil) or 1 (the pointee).                                             *)
(***************************************************************************)
EXTENDS Integers, Sequences, FiniteSets, TLC

\* ---------------------------------------------------------------- bounds
MaxTime == 3          \* the wall clock runs from Epoch to MaxTime
MaxScrapes == 2       \* number of Collect calls in one behaviour

\* ------------------------------------------------------------- constants
RefreshInterval == 2  \* netatmoCollector.refreshInterval
StaleThreshold == 1   \* netatmoCollector.staleThreshold
ZeroTime == -100      \* the zero value time.Time{}
Epoch == 1            \* first clock reading of the process

Scrapers == {"s1", "s2"}   \* concurrent HTTP handlers calling Collect

NoError == "nil"
ReadError == "read failed"
NilPtr == <<>>

VARIABLES
    clock,             \* time.Now()
    lastRefresh,       \* c.lastRefresh
    lastRefreshError,  \* c.lastRefreshError
    cacheTimestamp,    \* c.cacheTimestamp
    cachedData,        \* c.cachedData (pointer)
    cacheLock,         \* c.cacheLock: [w |-> writer task or 0, readers |-> set]
    tasks,             \* the refreshData goroutines, in dispatch order
    pc,                \* position of every Collect caller
    sample,            \* what Collect has sent on mChan
    nScrapes,          \* number of Collect calls started
    lastCompleted      \* history: outcome of the refresh that returned last

vars == <<clock, lastRefresh, lastRefreshError, cacheTimestamp, cachedData,
          cacheLock, tasks, pc, sample, nScrapes,
          lastCompleted>>

\* ------------------------------------------------------------ time.Time
IsZero(t) == t = ZeroTime
Unix(t) == t
Sub(t, u) == t - u
Since(t) == Sub(clock, t)

convertTime(t) == IF IsZero(t) THEN 0 ELSE Unix(t)

AllTimes == {ZeroTime} \cup (Epoch..MaxTime)

\* --------------------------------------------------- netatmo.Device data
Module(name, lm) ==
    [ModuleName |-> name, StationName |-> "", LastMeasure |-> lm,
     LinkedModules |-> <<>>]

Station(name, station, lm, mods) ==
    [ModuleName |-> name, StationName |-> station, LastMeasure |-> lm,
     LinkedModules |-> mods]

\* the device collections client.Read() returns: one station with one
\* module, either of them without a measurement so far, the other one last
\* measured when the process started
ReadResults ==
    {<<Station("Indoor", "Home", <<Epoch>>, <<Module("Outdoor", NilPtr)>>)>>,
     <<Station("Indoor", "Home", NilPtr, <<Module("Outdoor", <<Epoch>>)>>)>>}

\* ----------------------------------------------------------- observations
Obs(desc, value, labels) == [desc |-> desc, value |-> value, labels |-> labels]

\* lines 172-177: the descriptors Describe sends
Describe ==
    {"netatmo_sensor_updated", "netatmo_sensor_temperature_celsius",
     "netatmo_sensor_humidity_percent", "netatmo_sensor_co2_ppm"}

\* every descriptor declared with varLabels
LabelCountAllVar(desc) == 2

\* sendMetric: NewConstMetric fails only on a label-count mismatch
LabelCount(desc) ==
    IF desc \in {"netatmo_up", "netatmo_last_refresh_time",
                 "netatmo_cache_updated_time"} THEN 0 ELSE 2

sendMetric(ch, desc, value, labels) ==
    IF Len(labels) # LabelCount(desc) THEN ch
    ELSE Append(ch, Obs(desc, value, labels))

\* the staleness test with >= for >
collectDataStrict(ch, device, stationName) ==
    IF device.LastMeasure = NilPtr THEN ch
    ELSE IF Since(device.LastMeasure[1]) >= StaleThreshold THEN ch
    ELSE sendMetric(ch, "netatmo_sensor_updated", Unix(device.LastMeasure[1]),
                    <<device.ModuleName, stationName>>)

\* collectData for one device, sending on ch
collectData(ch, device, stationName) ==
    IF device.LastMeasure = NilPtr THEN ch
    ELSE IF Since(device.LastMeasure[1]) > StaleThreshold THEN ch
    ELSE sendMetric(ch, "netatmo_sensor_updated", Unix(device.LastMeasure[1]),
                    <<device.ModuleName, stationName>>)

RECURSIVE collectModules(_, _, _)
collectModules(ch, mods, stationName) ==
    IF mods = <<>> THEN ch
    ELSE collectModules(collectData(ch, Head(mods), stationName),
                        Tail(mods), stationName)

\* the modules sent with the station's module name as their station label
collectDeviceModuleName(ch, dev) ==
    collectModules(collectData(ch, dev, dev.StationName),
                   dev.LinkedModules, dev.ModuleName)

\* one iteration of the range over c.cachedData.Devices()
collectDevice(ch, dev) ==
    collectModules(collectData(ch, dev, dev.StationName),
                   dev.LinkedModules, dev.StationName)

\* -------------------------------------------------------------- the lock
\* Collect reading the cache without waiting for the lock
RLockNeverWaits == TRUE

\* sync.RWMutex: RLock waits while a writer holds or awaits the lock, Lock
\* waits for the other writers and then for the readers inside to leave
RLockFree == cacheLock.w = 0
LockFree == cacheLock.w = 0
ReadersGone == cacheLock.readers = {}

\* ---------------------------------------------------- racing field access
\* c.lastRefresh is written at the start of refreshData and read by Collect
\* with no lock: a read that overlaps a write sees the old value, the new
\* one, or a mixture of their words, which decodes to an arbitrary time.
Writing == {i \in 1..Len(tasks) : tasks[i].pc = "r_writing"}

ReadLastRefresh == IF Writing = {} THEN {lastRefresh} ELSE AllTimes

WriteLastRefresh(i) ==
    IF Writing \ {i} = {} THEN {tasks[i].now} ELSE AllTimes

\* ------------------------------------------------------------------ Init
Init ==
    /\ clock = Epoch
    /\ lastRefresh = ZeroTime
    /\ lastRefreshError = NoError
    /\ cacheTimestamp = ZeroTime
    /\ cachedData = NilPtr
    /\ cacheLock = [w |-> 0, readers |-> {}]
    /\ tasks = <<>>
    /\ pc = [s \in Scrapers |-> "idle"]
    /\ sample = [s \in Scrapers |-> <<>>]
    /\ nScrapes = 0
    /\ lastCompleted = "none"

\* ----------------------------------------------------------------- clock
Tick ==
    /\ clock < MaxTime
    /\ clock' = clock + 1
    /\ UNCHANGED <<lastRefresh, lastRefreshError, cacheTimestamp, cachedData,
                   cacheLock, tasks, pc, sample, nScrapes,
                   lastCompleted>>

\* --------------------------------------------------------------- Collect
\* line 181: the refresh gate
ShouldRefresh(now, last) == Sub(now, last) >= RefreshInterval

\* line 182: go c.refreshData(now)
Dispatch(now) == Append(tasks, [pc |-> "r_start", now |-> now,
                                devices |-> NilPtr])

\* lines 180-183: now := time.Now(), the gate and the dispatch
CollectStart(s) ==
    /\ pc[s] = "idle"
    /\ nScrapes < MaxScrapes
    /\ nScrapes' = nScrapes + 1
    /\ \E last \in ReadLastRefresh :
          tasks' = IF ShouldRefresh(clock, last) THEN Dispatch(clock)
                   ELSE tasks
    /\ pc' = [pc EXCEPT ![s] = "c_up"]
    /\ UNCHANGED <<clock, lastRefresh, lastRefreshError, cacheTimestamp,
                   cachedData, cacheLock, sample, lastCompleted>>

\* lines 185-188
UpValue(last, err) == IF IsZero(last) \/ err # NoError THEN 0 ELSE 1

\* lines 185-189
CollectUp(s) ==
    /\ pc[s] = "c_up"
    /\ \E last \in ReadLastRefresh :
          sample' = [sample EXCEPT ![s] =
              sendMetric(@, "netatmo_up", UpValue(last, lastRefreshError), <<>>)]
    /\ pc' = [pc EXCEPT ![s] = "c_lr"]
    /\ UNCHANGED <<clock, lastRefresh, lastRefreshError, cacheTimestamp,
                   cachedData, cacheLock, tasks, nScrapes,
                   lastCompleted>>

\* line 190
CollectLastRefresh(s) ==
    /\ pc[s] = "c_lr"
    /\ \E last \in ReadLastRefresh :
          sample' = [sample EXCEPT ![s] =
              sendMetric(@, "netatmo_last_refresh_time", convertTime(last), <<>>)]
    /\ pc' = [pc EXCEPT ![s] = "c_rlock"]
    /\ UNCHANGED <<clock, lastRefresh, lastRefreshError, cacheTimestamp,
                   cachedData, cacheLock, tasks, nScrapes,
                   lastCompleted>>

\* line 192: c.cacheLock.RLock(), and line 195
CollectCacheTime(s) ==
    /\ pc[s] = "c_rlock"
    /\ RLockFree
    /\ cacheLock' = [cacheLock EXCEPT !.readers = @ \cup {s}]
    /\ sample' = [sample EXCEPT ![s] =
          sendMetric(@, "netatmo_cache_updated_time",
                     convertTime(cacheTimestamp), <<>>)]
    /\ pc' = [pc EXCEPT ![s] = "c_dev"]
    /\ UNCHANGED <<clock, lastRefresh, lastRefreshError, cacheTimestamp,
                   cachedData, tasks, nScrapes,
                   lastCompleted>>

\* c.cachedData.Devices(), empty for a nil c.cachedData (line 196)
Devices == IF cachedData = NilPtr THEN <<>> ELSE cachedData[1]

\* lines 196-205: the range over the devices and their linked modules
RECURSIVE collectDevices(_, _)
collectDevices(ch, devs) ==
    IF devs = <<>> THEN ch
    ELSE collectDevices(collectDevice(ch, Head(devs)), Tail(devs))

CollectDevices(s) ==
    /\ pc[s] = "c_dev"
    /\ sample' = [sample EXCEPT ![s] = collectDevices(@, Devices)]
    /\ pc' = [pc EXCEPT ![s] = "c_ret"]
    /\ UNCHANGED <<clock, lastRefresh, lastRefreshError, cacheTimestamp,
                   cachedData, cacheLock, tasks, nScrapes,
                   lastCompleted>>

\* line 206 with the deferred RUnlock of line 193; the locals die
CollectReturn(s) ==
    /\ pc[s] = "c_ret"
    /\ cacheLock' = [cacheLock EXCEPT !.readers = @ \ {s}]
    /\ pc' = [pc EXCEPT ![s] = "idle"]
    /\ sample' = [sample EXCEPT ![s] = <<>>]
    /\ UNCHANGED <<clock, lastRefresh, lastRefreshError, cacheTimestamp,
                   cachedData, tasks, nScrapes, lastCompleted>>

\* ----------------------------------------------------------- refreshData
TaskVarsUnchanged ==
    UNCHANGED <<clock, pc, sample, nScrapes>>

\* line 210: the store to c.lastRefresh begins
RefreshBegin(i) ==
    /\ tasks[i].pc = "r_start"
    /\ tasks' = [tasks EXCEPT ![i].pc = "r_writing"]
    /\ UNCHANGED <<lastRefresh, lastRefreshError, cacheTimestamp, cachedData,
                   cacheLock, lastCompleted>>
    /\ TaskVarsUnchanged

\* refreshData taking the write lock before it calls Read
RefreshSetLastLocked(i) ==
    /\ tasks[i].pc = "r_writing"
    /\ LockFree
    /\ cacheLock' = [cacheLock EXCEPT !.w = i]
    /\ \E t \in WriteLastRefresh(i) : lastRefresh' = t
    /\ tasks' = [tasks EXCEPT ![i].pc = "r_read"]
    /\ UNCHANGED <<lastRefreshError, cacheTimestamp, cachedData,
                   lastCompleted>>
    /\ TaskVarsUnchanged

\* line 210: the store to c.lastRefresh is complete; line 212 calls Read
RefreshSetLast(i) ==
    /\ tasks[i].pc = "r_writing"
    /\ \E t \in WriteLastRefresh(i) : lastRefresh' = t
    /\ tasks' = [tasks EXCEPT ![i].pc = "r_read"]
    /\ UNCHANGED <<lastRefreshError, cacheTimestamp, cachedData, cacheLock,
                   lastCompleted>>
    /\ TaskVarsUnchanged

\* a failed refresh dropping the snapshot
RefreshFailEvicts(i) ==
    /\ tasks[i].pc = "r_read"
    /\ lastRefreshError' = ReadError
    /\ cachedData' = NilPtr
    /\ cacheTimestamp' = ZeroTime
    /\ tasks' = [tasks EXCEPT ![i].pc = "done"]
    /\ lastCompleted' = "failed"
    /\ UNCHANGED <<lastRefresh, cacheLock>>
    /\ TaskVarsUnchanged

\* a failed refresh that runs refreshData again
RefreshFailRetries(i) ==
    /\ tasks[i].pc = "r_read"
    /\ lastRefreshError' = ReadError
    /\ tasks' = [tasks EXCEPT ![i].pc = "r_start"]
    /\ lastCompleted' = "failed"
    /\ UNCHANGED <<lastRefresh, cacheTimestamp, cachedData, cacheLock>>
    /\ TaskVarsUnchanged

\* lines 213-217: Read returned an error
RefreshFail(i) ==
    /\ tasks[i].pc = "r_read"
    /\ lastRefreshError' = ReadError
    /\ tasks' = [tasks EXCEPT ![i].pc = "done"]
    /\ lastCompleted' = "failed"
    /\ UNCHANGED <<lastRefresh, cacheTimestamp, cachedData, cacheLock>>
    /\ TaskVarsUnchanged

\* line 212: Read returned devices and no error
RefreshRead(i) ==
    /\ tasks[i].pc = "r_read"
    /\ \E d \in ReadResults :
          tasks' = [tasks EXCEPT ![i].pc = "r_lock", ![i].devices = <<d>>]
    /\ UNCHANGED <<lastRefresh, lastRefreshError, cacheTimestamp, cachedData,
                   cacheLock, lastCompleted>>
    /\ TaskVarsUnchanged

\* line 219: c.cacheLock.Lock() shuts out other writers and new readers
RefreshLock(i) ==
    /\ tasks[i].pc = "r_lock"
    /\ LockFree
    /\ cacheLock' = [cacheLock EXCEPT !.w = i]
    /\ tasks' = [tasks EXCEPT ![i].pc = "r_wait"]
    /\ UNCHANGED <<lastRefresh, lastRefreshError, cacheTimestamp, cachedData,
                   lastCompleted>>
    /\ TaskVarsUnchanged

\* line 219: Lock() returns once the readers that hold the lock have left;
\* line 221
RefreshStoreTime(i) ==
    /\ tasks[i].pc = "r_wait"
    /\ ReadersGone
    /\ cacheTimestamp' = tasks[i].now
    /\ tasks' = [tasks EXCEPT ![i].pc = "r_data"]
    /\ UNCHANGED <<lastRefresh, lastRefreshError, cachedData, cacheLock,
                   lastCompleted>>
    /\ TaskVarsUnchanged

\* line 222, and line 223 with the deferred Unlock of line 220
RefreshStoreData(i) ==
    /\ tasks[i].pc = "r_data"
    /\ cachedData' = tasks[i].devices
    /\ cacheLock' = [cacheLock EXCEPT !.w = IF @ = i THEN 0 ELSE @]
    /\ tasks' = [tasks EXCEPT ![i].pc = "done", ![i].devices = NilPtr]
    /\ lastCompleted' = "ok"
    /\ UNCHANGED <<lastRefresh, lastRefreshError, cacheTimestamp>>
    /\ TaskVarsUnchanged

\* ------------------------------------------------------------------ Next
ScrapeStep(s) ==
    \/ CollectUp(s)
    \/ CollectLastRefresh(s)
    \/ CollectCacheTime(s)
    \/ CollectDevices(s)
    \/ CollectReturn(s)

\* every step of refreshData but the return of the upstream Read
RefreshStep(i) ==
    \/ RefreshBegin(i)
    \/ RefreshSetLast(i)
    \/ RefreshLock(i)
    \/ RefreshStoreTime(i)
    \/ RefreshStoreData(i)

Next ==
    \/ Tick
    \/ \E s \in Scrapers : CollectStart(s)
    \/ \E s \in Scrapers : ScrapeStep(s)
    \/ \E i \in 1..Len(tasks) : RefreshStep(i)
    \/ \E i \in 1..Len(tasks) : RefreshFail(i)
    \/ \E i \in 1..Len(tasks) : RefreshRead(i)

Spec == Init /\ [][Next]_vars

\* ---------------------------------------------------------------------
\* The scrape path alone, over a cache that one refresh, dispatched and
\* completed at Epoch, has filled with an arbitrary small collection.
Measures == {NilPtr} \cup {<<u>> : u \in Epoch..MaxTime}

EmitInputs ==
    {<<Station("Indoor", "Home", lm1, <<Module("Outdoor", lm2)>>)>> :
        lm1 \in Measures, lm2 \in Measures}

InitEmit ==
    /\ clock \in Epoch..MaxTime
    /\ lastRefresh = Epoch
    /\ lastRefreshError = NoError
    /\ cacheTimestamp = Epoch
    /\ cachedData \in {<<d>> : d \in EmitInputs}
    /\ cacheLock = [w |-> 0, readers |-> {}]
    /\ tasks = <<[pc |-> "done", now |-> Epoch, devices |-> NilPtr]>>
    /\ pc = [s \in Scrapers |-> "idle"]
    /\ sample = [s \in Scrapers |-> <<>>]
    /\ nScrapes = 1
    /\ lastCompleted = "ok"

NextEmit ==
    \/ Tick
    \/ \E s \in Scrapers : CollectStart(s)
    \/ \E s \in Scrapers : ScrapeStep(s)

SpecEmit == InitEmit /\ [][NextEmit]_vars

\* ---------------------------------------------------------------------
\* The scrape path alone, over a cache that one refresh, dispatched and
\* completed at Epoch, has filled with up to two stations of up to
\* MaxModules modules each, all measured at Epoch, under arbitrary module
\* names.
MaxModules == 2

ModuleNames == {"Indoor", "Outdoor"}

ModuleSeqs ==
    UNION {[1..n -> {Module(m, <<Epoch>>) : m \in ModuleNames}] :
               n \in 0..MaxModules}

StationsNamed(station) ==
    {Station(m, station, <<Epoch>>, mods) :
        m \in ModuleNames, mods \in ModuleSeqs}

NamesInputs ==
    {<<>>} \cup {<<a>> : a \in StationsNamed("Home")}
           \cup {<<a, b>> : a \in StationsNamed("Home"),
                            b \in StationsNamed("Cabin")}

InitNames ==
    /\ clock \in Epoch..MaxTime
    /\ lastRefresh = Epoch
    /\ lastRefreshError = NoError
    /\ cacheTimestamp = Epoch
    /\ cachedData \in {<<d>> : d \in NamesInputs}
    /\ cacheLock = [w |-> 0, readers |-> {}]
    /\ tasks = <<[pc |-> "done", now |-> Epoch, devices |-> NilPtr]>>
    /\ pc = [s \in Scrapers |-> "idle"]
    /\ sample = [s \in Scrapers |-> <<>>]
    /\ nScrapes = 1
    /\ lastCompleted = "ok"

SpecNames == InitNames /\ [][NextEmit]_vars

\* ---------------------------------------------------------------------
\* Properties

InFlight == {i \in 1..Len(tasks) : tasks[i].pc # "done"}

Abs(n) == IF n < 0 THEN 0 - n ELSE n

Gauges == {"netatmo_up", "netatmo_last_refresh_time",
           "netatmo_cache_updated_time"}

Count(ch, desc) == Cardinality({k \in 1..Len(ch) : ch[k].desc = desc})

\* the devices and modules of a collection, each with its label pair
RECURSIVE Entities(_)
Entities(devs) ==
    IF devs = <<>> THEN {}
    ELSE LET d == Head(devs)
         IN  {[labels |-> <<d.ModuleName, d.StationName>>,
               LastMeasure |-> d.LastMeasure]}
             \cup {[labels |-> <<d.LinkedModules[k].ModuleName, d.StationName>>,
                    LastMeasure |-> d.LinkedModules[k].LastMeasure] :
                      k \in 1..Len(d.LinkedModules)}
             \cup Entities(Tail(devs))

\* C1: at most one refresh is in flight (dispatched, result not yet applied)
\* in every reachable state.
C1_AtMostOneInFlight == Cardinality(InFlight) <= 1

\* C2: two scrapes whose times differ by less than refreshInterval dispatch
\* at most one refresh between them: any two dispatched refreshes carry
\* scrape times at least refreshInterval apart.
C2_DispatchesSpaced ==
    \A i, j \in 1..Len(tasks) :
        i < j => Abs(tasks[j].now - tasks[i].now) >= RefreshInterval

\* C3: the up gauge a scrape emits is 1 exactly when some refresh has
\* completed and the one that completed last succeeded.
C3_UpIffLastCompletedOk ==
    [][\A s \in Scrapers :
          (pc[s] = "c_up" /\ pc'[s] = "c_lr") =>
              (sample'[s][Len(sample'[s])].value = 1 <=> lastCompleted = "ok")]_vars

\* C4: once a refresh has completed successfully and no refresh has completed
\* since, the recorded last error is none.
C4_SuccessClearsError == lastCompleted = "ok" => lastRefreshError = NoError

\* C5: a step in which a refresh fails leaves cachedData and cacheTimestamp
\* as they were and records the error; the snapshot is only ever changed by
\* a refresh whose Read succeeded.
C5_FailureKeepsSnapshot ==
    [][/\ \A i \in 1..Len(tasks) :
             (tasks[i].pc = "r_read" /\ tasks'[i].pc = "done") =>
                 /\ cachedData' = cachedData
                 /\ cacheTimestamp' = cacheTimestamp
                 /\ lastRefreshError' = ReadError
       /\ (cachedData' # cachedData \/ cacheTimestamp' # cacheTimestamp) =>
             \E i \in 1..Len(tasks) :
                 /\ tasks[i].devices # NilPtr
                 /\ tasks'[i].pc # tasks[i].pc]_vars

C5_Witness ==
    /\ lastCompleted = "failed"
    /\ lastRefreshError = ReadError
    /\ cachedData # NilPtr
    /\ cacheTimestamp # ZeroTime

\* C6: a scrape in progress can always take its next step, except while it
\* waits in RLock for a refresh that has its Read behind it and holds the
\* lock; that refresh can take its next step or waits only for scrapes that
\* can take theirs.  No scrape ever waits for an outstanding Read.
C6_ScrapeNeverWaitsForRead ==
    \A s \in Scrapers :
        pc[s] # "idle" =>
            \/ ENABLED ScrapeStep(s)
            \/ /\ pc[s] = "c_rlock"
               /\ cacheLock.w \in 1..Len(tasks)
               /\ tasks[cacheLock.w].pc \in {"r_wait", "r_data"}
               /\ \/ ENABLED RefreshStep(cacheLock.w)
                  \/ /\ cacheLock.readers # {}
                     /\ \A r \in cacheLock.readers : ENABLED ScrapeStep(r)

C6_Witness ==
    \E s \in Scrapers :
        /\ pc[s] = "c_ret"
        /\ cachedData # NilPtr
        /\ \E i \in 1..Len(tasks) : tasks[i].pc = "r_read"

\* C7: while a scrape holds the read lock, between sending cache_updated_time
\* and returning, the time it sent is the timestamp of the snapshot in the
\* cache, no refresh is half way through storing a snapshot, and every
\* sensor observation it sent is one of an entity of that snapshot.
C7_SnapshotReadAtomically ==
    \A s \in Scrapers :
        pc[s] \in {"c_dev", "c_ret"} =>
            /\ sample[s][3].value = convertTime(cacheTimestamp)
            /\ \A i \in 1..Len(tasks) : tasks[i].pc # "r_data"
            /\ \A k \in 4..Len(sample[s]) :
                  \E e \in Entities(Devices) :
                      /\ e.LastMeasure # NilPtr
                      /\ sample[s][k].labels = e.labels
                      /\ sample[s][k].value = Unix(e.LastMeasure[1])

C7_Witness ==
    \E s \in Scrapers :
        /\ pc[s] = "c_ret"
        /\ Len(sample[s]) > 3
        /\ cacheLock.w # 0

\* C8: during the first scrape of a fresh collector, while the refresh it
\* dispatched is pending, every observation sent is a gauge of value 0.
C8_FirstScrapeAllZero ==
    (nScrapes = 1 /\ InFlight # {}) =>
        \A s \in Scrapers :
            \A k \in 1..Len(sample[s]) :
                sample[s][k].desc \in Gauges /\ sample[s][k].value = 0

\* C9: a scrape that has run to its return has sent exactly one up, one
\* last_refresh_time and one cache_updated_time observation, whatever the
\* refresh state and the cache.
C9_ScrapeAlwaysSendsGauges ==
    \A s \in Scrapers :
        pc[s] = "c_ret" => \A g \in Gauges : Count(sample[s], g) = 1

C9_Witness ==
    \E s \in Scrapers :
        /\ pc[s] = "c_ret"
        /\ lastRefreshError = ReadError
        /\ cachedData = NilPtr

\* C10: in the step that sends the sensor observations, an entity of the
\* snapshot gets an observation if and only if it has a capture timestamp
\* and its age is at most staleThreshold, whatever the other entities are.
C10_StalenessPerEntity ==
    [][\A s \in Scrapers :
          (pc[s] = "c_dev" /\ pc'[s] = "c_ret") =>
              \A e \in Entities(Devices) :
                  (\E k \in 4..Len(sample'[s]) : sample'[s][k].labels = e.labels)
                  <=> (/\ e.LastMeasure # NilPtr
                       /\ clock - e.LastMeasure[1] <= StaleThreshold)]_vars

C10_Witness ==
    \E s \in Scrapers :
        /\ pc[s] = "c_ret"
        /\ Len(sample[s]) = 4
        /\ \E e \in Entities(Devices) :
              /\ e.LastMeasure # NilPtr
              /\ e.labels # sample[s][4].labels

\* the devices and modules of a collection in the order of the range over
\* them, each with its own name and the name of the station that owns it
RECURSIVE EntitySeq(_)
EntitySeq(devs) ==
    IF devs = <<>> THEN <<>>
    ELSE LET d == Head(devs)
         IN  <<[name |-> d.ModuleName, owner |-> d.StationName,
                isStation |-> TRUE, LastMeasure |-> d.LastMeasure]>>
             \o [k \in 1..Len(d.LinkedModules) |->
                    [name |-> d.LinkedModules[k].ModuleName,
                     owner |-> d.StationName, isStation |-> FALSE,
                     LastMeasure |-> d.LinkedModules[k].LastMeasure]]
             \o EntitySeq(Tail(devs))

AllFresh(ents) ==
    \A k \in 1..Len(ents) :
        /\ ents[k].LastMeasure # NilPtr
        /\ clock - ents[k].LastMeasure[1] <= StaleThreshold

\* the sensor observations of a sample, after its three gauges
Sensors(ch) == SubSeq(ch, 4, Len(ch))

\* C11: over a snapshot of N stations and M modules, all fresh, the step
\* that sends the sensor observations sends exactly N+M sensor_updated
\* observations, no two of them with the same (module, station) labels.
C11_OnePerEntityNoDuplicates ==
    [][\A s \in Scrapers :
          (pc[s] = "c_dev" /\ pc'[s] = "c_ret" /\ AllFresh(EntitySeq(Devices))) =>
              LET out == Sensors(sample'[s])
              IN  /\ Len(out) = Len(EntitySeq(Devices))
                  /\ \A k \in 1..Len(out) : out[k].desc = "netatmo_sensor_updated"
                  /\ \A j, k \in 1..Len(out) :
                        j # k => out[j].labels # out[k].labels]_vars

C12_DescribeListsEveryMetric ==
    \A s \in Scrapers :
        \A k \in 1..Len(sample[s]) : sample[s][k].desc \in Describe

\* C14: the step that starts a scrape dispatches a refresh if and only if no
\* refresh is in progress and the time since the recorded last attempt is at
\* least refreshInterval.
C14_DispatchIffIdleAndDue ==
    [][\A s \in Scrapers :
          (pc[s] = "idle" /\ pc'[s] = "c_up") =>
              (Len(tasks') > Len(tasks)
                   <=> (InFlight = {} /\ Sub(clock, lastRefresh) >= RefreshInterval))]_vars

\* C15: the up and last_refresh_time values of one sample are those of one
\* (lastRefresh, lastRefreshError) pair: there is a time L and an error state
\* E, an error only if one has been recorded, with up computed from L and E
\* and last_refresh_time converted from the same L.
C15_SampleIsConsistentRead ==
    \A s \in Scrapers :
        Len(sample[s]) >= 2 =>
            \E L \in AllTimes, E \in {NoError, ReadError} :
                /\ E = ReadError => lastRefreshError = ReadError
                /\ sample[s][1].value = UpValue(L, E)
                /\ sample[s][2].value = convertTime(L)

\* C16: a refresh stores to lastRefresh only while it holds the lock in
\* exclusive mode: it is the lock's writer and no scrape is inside.
C16_LastRefreshStoredUnderLock ==
    \A i \in Writing : cacheLock.w = i /\ cacheLock.readers = {}

\* C17: the timestamp of the published snapshot never decreases.
C17_CacheTimestampMonotonic == [][cacheTimestamp' >= cacheTimestamp]_vars

\* C18: the published snapshot's timestamp is never later than the recorded
\* last refresh attempt.
C18_CacheNotAfterLastRefresh == cacheTimestamp <= lastRefresh

\* the refreshes that have called Read
CalledRead(t) == t.pc \notin {"r_start", "r_writing"}

\* C19: refreshes exist only as dispatched by scrapes, at most one per scrape,
\* and a refresh that has called Read never calls it again nor starts over:
\* there are never more Read calls than refreshes, nor more refreshes than
\* scrapes.
C19_ReadsOnlyFromScrapes ==
    /\ [](Len(tasks) <= nScrapes)
    /\ [][/\ Len(tasks') <= Len(tasks) + 1
          /\ Len(tasks') > Len(tasks) => nScrapes' = nScrapes + 1
          /\ \A i \in 1..Len(tasks) :
                /\ CalledRead(tasks[i]) => CalledRead(tasks'[i])
                /\ (CalledRead(tasks[i]) /\ tasks[i].pc # "r_read") =>
                       tasks'[i].pc # "r_read"]_vars

C19_Witness ==
    /\ nScrapes = MaxScrapes
    /\ Len(tasks) = 1
    /\ tasks[1].pc = "done"
    /\ lastCompleted = "failed"
    /\ \A s \in Scrapers : pc[s] = "idle"

====
